---- MODULE Spec2Model ----
(***************************************************************************)
(* A model of the two screenshot batch converters of keithah/pingmonitor:  *)
(*   convert_screenshots.py  (create_app_store_screenshot, "Policy A")     *)
(*   resize_screenshots.py   (resize_for_app_store,        "Policy B")     *)
(*                                                                         *)
(* Both scale computations are done by Python in IEEE-754 binary64.  The   *)
(* model computes them bit-exactly: a float is a sign, a 53-bit mantissa   *)
(* (kept as a little-endian sequence of base-2^15 limbs, since TLC's       *)
(* integers are 32 bits wide) and a binary exponent; division and          *)
(* multiplication round to nearest, ties to even, as the hardware does.    *)
(***************************************************************************)
EXTENDS Integers, Sequences, FiniteSets, TLC

(***************************************************************************)
(* TLC evaluates an operator's arguments and the definitions of a LET      *)
(* every time they are used.  The({e : x \in {v}}) is e with x bound to    *)
(* the value of v, computed once: it is how the definitions below name an  *)
(* intermediate result, as an assignment does in the Python code.          *)
(***************************************************************************)
The(S) == CHOOSE v \in S : TRUE

(***************************************************************************)
(* Natural numbers of arbitrary size: little-endian limbs in base 2^15,    *)
(* no leading (high) zero limb; zero is the empty sequence.                *)
(***************************************************************************)
LimbBits == 15

LimbBase == 32768

\* 2^n for 0 <= n < LimbBits
Pow2(n) == <<1, 2, 4, 8, 16, 32, 64, 128, 256, 512, 1024, 2048, 4096, 8192, 16384>>[n + 1]

\* the number of bits of n, 0 <= n < 2^LimbBits
BitLen(n0) ==
  The({ IF n = 0 THEN 0 ELSE CHOOSE b \in 1..LimbBits : Pow2(b - 1) <= n /\ n \div 2 < Pow2(b - 1)
        : n \in {n0} })

RECURSIVE BigNorm(_)
BigNorm(a0) ==
  The({ IF a = <<>> THEN <<>>
        ELSE IF a[Len(a)] = 0 THEN BigNorm(SubSeq(a, 1, Len(a) - 1))
        ELSE a
        : a \in {a0} })

\* the limbs of n, 0 <= n < 2^31
BigFromInt(n0) ==
  The({ BigNorm(<< n % LimbBase, (n \div LimbBase) % LimbBase,
                   n \div (LimbBase * LimbBase) >>)
        : n \in {n0} })

\* the value of a, for a < 2^31
BigToInt(a0) ==
  The({ (IF Len(a) >= 1 THEN a[1] ELSE 0)
        + (IF Len(a) >= 2 THEN LimbBase * a[2] ELSE 0)
        + (IF Len(a) >= 3 THEN LimbBase * LimbBase * a[3] ELSE 0)
        : a \in {a0} })

BigBitLen(a0) ==
  The({ IF a = <<>> THEN 0 ELSE LimbBits * (Len(a) - 1) + BitLen(a[Len(a)])
        : a \in {a0} })

\* a * m + c, for 0 <= m < 2^16 and 0 <= c < 2^16 (not normalised)
RECURSIVE BigMulAdd(_, _, _)
BigMulAdd(a0, m0, c0) ==
  The({ IF a = <<>> THEN (IF c = 0 THEN <<>> ELSE <<c % LimbBase, c \div LimbBase>>)
        ELSE The({ <<t % LimbBase>> \o BigMulAdd(Tail(a), m, t \div LimbBase)
                   : t \in {a[1] * m + c} })
        : a \in {a0}, m \in {m0}, c \in {c0} })

BigMulSmall(a, m) == BigNorm(BigMulAdd(a, m, 0))

\* a * 2^s
BigShl(a0, s0) ==
  The({ IF a = <<>> THEN <<>>
        ELSE [x \in 1..(s \div LimbBits) |-> 0] \o BigMulSmall(a, Pow2(s % LimbBits))
        : a \in {a0}, s \in {s0} })

\* the long division of the limbs a[1..k] by a small d, from the high limb
\* down, with rem carried in: <<quotient limbs, remainder>>
RECURSIVE BigDivStep(_, _, _, _)
BigDivStep(a0, k0, d0, rem0) ==
  The({ IF k = 0 THEN <<<<>>, rem>>
        ELSE The({ <<Append(rest[1], t \div d), rest[2]>>
                   : rest \in {BigDivStep(a, k - 1, d, t % d)} })
        : a \in {a0}, k \in {k0}, d \in {d0}, t \in {IF k0 = 0 THEN 0 ELSE rem0 * LimbBase + a0[k0]},
          rem \in {rem0} })

\* floor(a / 2^s)
BigShr(a0, s0) ==
  The({ IF s \div LimbBits >= Len(a) THEN <<>>
        ELSE The({ BigNorm(BigDivStep(hi, Len(hi), Pow2(s % LimbBits), 0)[1])
                   : hi \in {SubSeq(a, s \div LimbBits + 1, Len(a))} })
        : a \in {a0}, s \in {s0} })

\* bit b (bit 0 is the lowest) of a
BigBit(a0, b0) ==
  The({ IF b \div LimbBits >= Len(a) THEN 0
        ELSE (a[b \div LimbBits + 1] \div Pow2(b % LimbBits)) % 2
        : a \in {a0}, b \in {b0} })

\* whether a mod 2^s is nonzero
BigLowNonzero(a0, s0) ==
  The({ \E x \in 1..Len(a) :
           /\ a[x] # 0
           /\ \/ x <= s \div LimbBits
              \/ x = s \div LimbBits + 1 /\ a[x] % Pow2(s % LimbBits) # 0
        : a \in {a0}, s \in {s0} })

\* -1, 0, 1 as a < b, a = b, a > b (both normalised)
BigCmp(a0, b0) ==
  The({ IF Len(a) < Len(b) THEN -1
        ELSE IF Len(a) > Len(b) THEN 1
        ELSE IF a = b THEN 0
        ELSE The({ IF a[x] < b[x] THEN -1 ELSE 1
                   : x \in {CHOOSE y \in 1..Len(a) :
                              a[y] # b[y] /\ \A z \in (y + 1)..Len(a) : a[z] = b[z]} })
        : a \in {a0}, b \in {b0} })

\* a - b - borrow, for a >= b + borrow (not normalised)
RECURSIVE BigSubBorrow(_, _, _)
BigSubBorrow(a0, b0, borrow0) ==
  The({ IF a = <<>> THEN <<>>
        ELSE The({ <<IF t < 0 THEN t + LimbBase ELSE t>>
                   \o BigSubBorrow(Tail(a), IF b = <<>> THEN <<>> ELSE Tail(b),
                                   IF t < 0 THEN 1 ELSE 0)
                   : t \in {a[1] - (IF b = <<>> THEN 0 ELSE b[1]) - borrow} })
        : a \in {a0}, b \in {b0}, borrow \in {borrow0} })

BigSub(a, b) == BigNorm(BigSubBorrow(a, b, 0))

\* a + b + c (not normalised)
RECURSIVE BigAdd(_, _, _)
BigAdd(a0, b0, c0) ==
  The({ IF a = <<>> /\ b = <<>> THEN (IF c = 0 THEN <<>> ELSE <<c>>)
        ELSE The({ <<t % LimbBase>>
                   \o BigAdd(IF a = <<>> THEN <<>> ELSE Tail(a),
                             IF b = <<>> THEN <<>> ELSE Tail(b),
                             t \div LimbBase)
                   : t \in {(IF a = <<>> THEN 0 ELSE a[1])
                            + (IF b = <<>> THEN 0 ELSE b[1]) + c} })
        : a \in {a0}, b \in {b0}, c \in {c0} })

\* a * b
RECURSIVE BigMul(_, _)
BigMul(a0, b0) ==
  The({ IF b = <<>> \/ a = <<>> THEN <<>>
        ELSE The({ BigNorm(BigAdd(BigMulSmall(a, b[1]),
                                  IF high = <<>> THEN <<>> ELSE <<0>> \o high, 0))
                   : high \in {BigMul(a, Tail(b))} })
        : a \in {a0}, b \in {b0} })

\* the next base-2^15 digit of a long division: floor(r / d) for r < d * 2^15
\* and d of MantBits bits.  The leading bits of r and d bracket the digit;
\* the digit is the one value in the bracket with c * d <= r < (c + 1) * d.
BigDivDigit(r0, d0) ==
  The({ CHOOSE c \in (rt \div (dt + 1))..((rt + 1) \div dt) :
           /\ BigCmp(BigMulSmall(d, c), r) <= 0
           /\ BigCmp(BigSub(r, BigMulSmall(d, c)), d) < 0
        : r \in {r0}, d \in {d0},
          rt \in {BigToInt(BigShr(r0, 38))}, dt \in {BigToInt(BigShr(d0, 38))} })

\* long division, digit by digit: <<the digits of floor(rem * 2^(15 digits) / d)
\* put below those of q, whether a remainder is left>>, for rem < d
RECURSIVE BigLongDiv(_, _, _, _)
BigLongDiv(rem0, d0, digits0, q0) ==
  The({ IF digits = 0 THEN <<BigNorm(q), rem # <<>>>>
        ELSE The({ The({ BigLongDiv(BigSub(r, BigMulSmall(d, c)), d, digits - 1, <<c>> \o q)
                         : c \in {BigDivDigit(r, d)} })
                   : r \in {IF rem = <<>> THEN <<>> ELSE <<0>> \o rem} })
        : rem \in {rem0}, d \in {d0}, digits \in {digits0}, q \in {q0} })

(***************************************************************************)
(* IEEE-754 binary64 values, as Python's float: [s, m, e] stands for       *)
(* s * m * 2^e with s in {-1, 0, 1} and, unless s = 0, 2^52 <= m < 2^53.   *)
(* The operands of the two programs are far from overflow, underflow and   *)
(* subnormals, so the exponent is unbounded here.                          *)
(***************************************************************************)
MantBits == 53

FZero == [s |-> 0, m |-> <<>>, e |-> 0]

\* m * 2^e (m > 0; sticky: the exact value is a little above it) rounded to
\* nearest, ties to even
FRound(sign, m0, e0, sticky0) ==
  The({ The({ IF len <= MantBits
              THEN [s |-> sign, m |-> BigShl(m, MantBits - len), e |-> e - (MantBits - len)]
              ELSE The({ The({ IF BigBitLen(m1) > MantBits
                               THEN [s |-> sign, m |-> BigShr(m1, 1),
                                     e |-> e + (len - MantBits) + 1]
                               ELSE [s |-> sign, m |-> m1, e |-> e + (len - MantBits)]
                               : m1 \in {IF half /\ (rest \/ BigBit(q, 0) = 1)
                                         THEN BigNorm(BigAdd(q, <<>>, 1)) ELSE q} })
                         : q    \in {BigShr(m, len - MantBits)},
                           half \in {BigBit(m, len - MantBits - 1) = 1},
                           rest \in {BigLowNonzero(m, len - MantBits - 1) \/ sticky} })
              : len \in {BigBitLen(m)} })
        : m \in {m0}, e \in {e0}, sticky \in {sticky0} })

\* float(n) for an integer n, |n| < 2^31: exact
FInt(n0) ==
  The({ IF n = 0 THEN FZero
        ELSE FRound(IF n < 0 THEN -1 ELSE 1, BigFromInt(IF n < 0 THEN -n ELSE n), 0, FALSE)
        : n \in {n0} })

\* x * y
FMul(x0, y0) ==
  The({ IF x.s = 0 \/ y.s = 0 THEN FZero
        ELSE FRound(x.s * y.s, BigMul(x.m, y.m), x.e + y.e, FALSE)
        : x \in {x0}, y \in {y0} })

\* the base-2^15 digits FDiv computes after the quotient's leading bit: 60
\* bits, more than the MantBits + 2 that rounding needs
DivDigits == 4

\* x / y, y # 0: the quotient of the mantissas to 61 bits and a sticky bit,
\* rounded
FDiv(x0, y0) ==
  The({ IF x.s = 0 THEN FZero
        ELSE The({ FRound(x.s * y.s, qr[1], x.e - y.e - DivDigits * LimbBits, qr[2])
                   : qr \in {IF BigCmp(x.m, y.m) >= 0
                             THEN BigLongDiv(BigSub(x.m, y.m), y.m, DivDigits, <<1>>)
                             ELSE BigLongDiv(x.m, y.m, DivDigits, <<>>)} })
        : x \in {x0}, y \in {y0} })

\* |x| < |y|, both nonzero
FMagLess(x, y) == IF x.e # y.e THEN x.e < y.e ELSE BigCmp(x.m, y.m) < 0

\* x < y
FLess(x0, y0) ==
  The({ IF x.s # y.s THEN x.s < y.s
        ELSE IF x.s = 0 THEN FALSE
        ELSE IF x.s = 1 THEN FMagLess(x, y)
        ELSE FMagLess(y, x)
        : x \in {x0}, y \in {y0} })

\* Python's min(a, b, c): the first of the smallest
FMin3(a0, b0, c0) ==
  The({ The({ IF FLess(c, ab) THEN c ELSE ab : ab \in {IF FLess(b, a) THEN b ELSE a} })
        : a \in {a0}, b \in {b0}, c \in {c0} })

\* Python's int(x): truncation toward zero
FTrunc(x0) ==
  The({ IF x.s = 0 THEN 0
        ELSE x.s * BigToInt(IF x.e >= 0 THEN BigShl(x.m, x.e) ELSE BigShr(x.m, -x.e))
        : x \in {x0} })

(***************************************************************************)
(* The scale computations.  An image size and a target size are pairs      *)
(* <<width, height>>.                                                      *)
(***************************************************************************)
padding == 100

\* NewSizeA with the padding forgotten: the image is fitted to the whole
\* target.  C10 does not hold of it.
NewSizeA_unpadded(orig, size) ==
  The({ The({ << FTrunc(FMul(FInt(orig[1]), scale)), FTrunc(FMul(FInt(orig[2]), scale)) >>
              : scale \in {FMin3(width_scale, height_scale, FInt(2))} })
        : width_scale  \in {FDiv(FInt(size[1]), FInt(orig[1]))},
          height_scale \in {FDiv(FInt(size[2]), FInt(orig[2]))} })

\* create_app_store_screenshot: <<new_width, new_height>>
NewSizeA(orig, size) ==
  The({ The({ The({ << FTrunc(FMul(FInt(orig_width), scale)),
                       FTrunc(FMul(FInt(orig_height), scale)) >>
                    : scale \in {FMin3(width_scale, height_scale, FInt(2))} })
              : width_scale  \in {FDiv(FInt(max_width), FInt(orig_width))},
                height_scale \in {FDiv(FInt(max_height), FInt(orig_height))} })
        : orig_width  \in {orig[1]},
          orig_height \in {orig[2]},
          max_width   \in {size[1] - (padding * 2)},
          max_height  \in {size[2] - (padding * 2)} })

\* NewSizeB with the two branches exchanged: the axis that does not bind is
\* set to the target.  C5 does not hold of it.
NewSizeB_exchanged(img, target_size) ==
  The({ IF FLess(target_ratio, img_ratio)
        THEN << FTrunc(FMul(FInt(target_size[2]), img_ratio)), target_size[2] >>
        ELSE << target_size[1], FTrunc(FDiv(FInt(target_size[1]), img_ratio)) >>
        : img_ratio    \in {FDiv(FInt(img[1]), FInt(img[2]))},
          target_ratio \in {FDiv(FInt(target_size[1]), FInt(target_size[2]))} })

\* resize_for_app_store: <<new_width, new_height>>
NewSizeB(img, target_size) ==
  The({ IF FLess(target_ratio, img_ratio)
        THEN << target_size[1], FTrunc(FDiv(FInt(target_size[1]), img_ratio)) >>
        ELSE << FTrunc(FMul(FInt(target_size[2]), img_ratio)), target_size[2] >>
        : img_ratio    \in {FDiv(FInt(img[1]), FInt(img[2]))},
          target_ratio \in {FDiv(FInt(target_size[1]), FInt(target_size[2]))} })

(***************************************************************************)
(* Images, files and the two transforms.                                   *)
(*                                                                         *)
(* An image is [size, mode, px]: its size, its Pillow mode and one sample  *)
(* pixel [rgb, a] of it (a = 0: fully transparent, a = 255: opaque; a mode *)
(* without alpha has a = 255).  A file is missing, undecodable, or holds   *)
(* an image.  What Pillow does is taken from its documentation:            *)
(*   Image.open raises on a file it cannot identify;                       *)
(*   Image.resize keeps the mode and raises ValueError ("height and width  *)
(*     must be > 0") for a size with a dimension below 1;                  *)
(*   Image.paste(im, box, mask) keeps the canvas where the mask is 0 and   *)
(*     takes im where it is 255; Image.paste(im, box) overwrites the box   *)
(*     (an LA image's luminance becomes the RGB value);                    *)
(*   Image.save raises OSError when the file cannot be opened (nothing     *)
(*     changes on disk) or cannot be written in full (a partial file).     *)
(***************************************************************************)
\* the modes of the model: "RGB", "RGBA" and "LA" (greyscale with alpha)
HasAlpha(mode) == mode \in {"RGBA", "LA"}

Ink == <<0, 0, 0>>

Image(size, mode, a) == [kind |-> "image", size |-> size, mode |-> mode,
                         px |-> [rgb |-> Ink, a |-> a]]

Missing == [kind |-> "missing"]

Undecodable == [kind |-> "undecodable"]

NoImage == [kind |-> "none"]

SaveOutcomes == {"ok", "open_failed", "write_failed"}

\* Image.resize((new_width, new_height), LANCZOS) succeeds
ResizeOk(new) == new[1] >= 1 /\ new[2] >= 1

\* the centred position: Python's // is the floor, as \div
Offset(size, new) == << (size[1] - new[1]) \div 2, (size[2] - new[2]) \div 2 >>

\* background.paste(resized, (x, y)[, resized]): the canvas pixel under the
\* sample pixel
Paste(bg_color, resized) ==
  IF resized.mode = "RGBA"
  THEN IF resized.px.a = 0 THEN bg_color ELSE resized.px.rgb
  ELSE resized.px.rgb

\* what save leaves of the output file
SaveEffect(save) ==
  CASE save = "ok"           -> "complete"
    [] save = "open_failed"  -> "untouched"
    [] save = "write_failed" -> "partial"

Outcome(raised, failed, new, offset, image, effect, printed) ==
  [raised |-> raised, failed |-> failed, new |-> new, offset |-> offset,
   image |-> image, disk |-> effect, printed |-> printed]

bg_color == <<245, 245, 247>>

\* create_app_store_screenshot, had it opened the output file for writing
\* before reading the input: a failure of any step leaves a partial file.  C7
\* does not hold of it.
create_app_store_screenshot_write_first(file, size, save) ==
  IF file.kind # "image"
  THEN Outcome(TRUE, "open", <<>>, <<>>, NoImage, "partial", "")
  ELSE The({ IF ~ResizeOk(new)
             THEN Outcome(TRUE, "resize", new, <<>>, NoImage, "partial", "")
             ELSE LET resized    == [file EXCEPT !.size = new]
                      xy         == Offset(size, new)
                      background == [kind |-> "image", size |-> size, mode |-> "RGB",
                                     px |-> [rgb |-> Paste(bg_color, resized), a |-> 255]]
                  IN  IF save # "ok"
                      THEN Outcome(TRUE, "save", new, xy, background, "partial", "")
                      ELSE Outcome(FALSE, "", new, xy, background, "complete", "Created")
             : new \in {NewSizeA(file.size, size)} })

\* create_app_store_screenshot(original_path, output_dir, size); `file` is what
\* original_path holds and `save` what the write of the output will do.  No
\* exception is caught here: raised = TRUE is an exception leaving the call.
create_app_store_screenshot(file, size, save) ==
  IF file.kind # "image"
  THEN Outcome(TRUE, "open", <<>>, <<>>, NoImage, "untouched", "")
  ELSE The({ IF ~ResizeOk(new)
             THEN Outcome(TRUE, "resize", new, <<>>, NoImage, "untouched", "")
             ELSE LET resized    == [file EXCEPT !.size = new]
                      xy         == Offset(size, new)
                      background == [kind |-> "image", size |-> size, mode |-> "RGB",
                                     px |-> [rgb |-> Paste(bg_color, resized), a |-> 255]]
                  IN  IF save # "ok"
                      THEN Outcome(TRUE, "save", new, xy, background, SaveEffect(save), "")
                      ELSE Outcome(FALSE, "", new, xy, background, SaveEffect(save), "Created")
             : new \in {NewSizeA(file.size, size)} })

white == <<255, 255, 255>>

\* resize_for_app_store(input_path, output_path, target_size): the same steps
\* inside try/except Exception, which prints the error and returns
resize_for_app_store(file, target_size, save) ==
  IF file.kind # "image"
  THEN Outcome(FALSE, "open", <<>>, <<>>, NoImage, "untouched", "Error")
  ELSE The({ IF ~ResizeOk(new)
             THEN Outcome(FALSE, "resize", new, <<>>, NoImage, "untouched", "Error")
             ELSE LET img_resized == [file EXCEPT !.size = new]
                      xy          == Offset(target_size, new)
                      new_img     == [kind |-> "image", size |-> target_size, mode |-> "RGB",
                                      px |-> [rgb |-> Paste(white, img_resized), a |-> 255]]
                  IN  IF save # "ok"
                      THEN Outcome(FALSE, "save", new, xy, new_img, SaveEffect(save), "Error")
                      ELSE Outcome(FALSE, "", new, xy, new_img, SaveEffect(save), "Saved")
             : new \in {NewSizeB(file.size, target_size)} })

(***************************************************************************)
(* The batch drivers: the two main() functions.                            *)
(***************************************************************************)
app_store_sizes == << <<1280, 800>>, <<1440, 900>>, <<2560, 1600>>, <<2880, 1800>> >>

\* the input names, as os.path.splitext splits them: <<root, ext>>
screenshots == << <<"mainscreen", ".png">>, <<"settings", ".png">>, <<"compact", ".png">> >>

Inputs == 1..Len(screenshots)

Sizes == 1..Len(app_store_sizes)

Pairs == Inputs \X Sizes

\* f"{base_name}_{width}x{height}.png"
OutputName(base_name, size) ==
  base_name \o "_" \o ToString(size[1]) \o "x" \o ToString(size[2]) \o ".png"

\* the manifest loop of convert_screenshots.main: the names printed from
\* input n and size k on
RECURSIVE ManifestFrom(_, _)
ManifestFrom(n, k) ==
  IF n > Len(screenshots) THEN <<>>
  ELSE IF k > Len(app_store_sizes) THEN ManifestFrom(n + 1, 1)
  ELSE <<OutputName(screenshots[n][1], app_store_sizes[k])>> \o ManifestFrom(n, k + 1)

\* how many writes of a run may fail
MaxSaveFaults == 1

\* what the files of a run may hold
DriverFiles ==
  { Missing, Undecodable, Image(<<1000, 600>>, "RGBA", 0), Image(<<5000, 1>>, "RGB", 255) }

VARIABLES
  prog,      \* which script runs: "convert" or "resize"
  fs,        \* fs[n]: what input n's file holds
  pre,       \* whether the output files exist before the run (an earlier run's)
  pc,        \* "loop": at the head of the loop over inputs; "sizes": in the
             \* loop over sizes; "done": the process has ended
  cur_input, \* the input the outer loop is at (an index of screenshots)
  cur_size,  \* the size the inner loop is at (an index of app_store_sizes)
  warned,    \* warned[n]: the "not found" warnings printed for input n
  calls,     \* the transform's invocations so far, in order, as <<n, k>>
  stage,     \* stage[p]: "none", or how pair p's transform ended:
             \* "open", "resize", "save" (the step that failed) or "done"
  disk,      \* disk[p]: pair p's output file: "absent", "old", "partial", "complete"
  logged,    \* the pairs whose failure was caught and printed
  manifest,  \* the manifest's lines, once printed
  exit,      \* the exit status; -1 while the process runs
  faults,    \* the writes that have failed
  t_in,      \* a direct call of a transform: its arguments
  t_out      \* and its outcome

vars == <<prog, fs, pre, pc, cur_input, cur_size, warned, calls, stage, disk,
          logged, manifest, exit, faults, t_in, t_out>>

NoCall == [fn |-> "none"]

Init ==
  /\ prog \in {"convert", "resize"}
  /\ fs \in [Inputs -> DriverFiles]
  /\ pre \in BOOLEAN
  /\ pc = "loop"
  /\ cur_input = 1
  /\ cur_size = 1
  /\ warned = [n \in Inputs |-> 0]
  /\ calls = <<>>
  /\ stage = [p \in Pairs |-> "none"]
  /\ disk = [p \in Pairs |-> IF pre THEN "old" ELSE "absent"]
  /\ logged = {}
  /\ manifest = <<>>
  /\ exit = -1
  /\ faults = 0
  /\ t_in = NoCall
  /\ t_out = NoCall

\* The outcomes of the calls a run can make, computed once: both transforms
\* are functions of the file, the size and what the write does.
ConvertOutcome ==
  [f \in DriverFiles, k \in Sizes, sv \in SaveOutcomes |->
     create_app_store_screenshot(f, app_store_sizes[k], sv)]

ResizeOutcome ==
  [f \in DriverFiles, k \in Sizes, sv \in SaveOutcomes |->
     resize_for_app_store(f, app_store_sizes[k], sv)]

\* the write of a pair may fail while the run has faults left
SaveChoices == IF faults < MaxSaveFaults THEN SaveOutcomes ELSE {"ok"}

\* the bookkeeping of one transform call with outcome r
Record(r) ==
  /\ calls' = Append(calls, <<cur_input, cur_size>>)
  /\ stage' = [stage EXCEPT ![<<cur_input, cur_size>>] = IF r.failed = "" THEN "done" ELSE r.failed]
  /\ disk' = [disk EXCEPT ![<<cur_input, cur_size>>] = IF r.disk = "untouched" THEN @ ELSE r.disk]
  /\ faults' = IF r.failed = "save" THEN faults + 1 ELSE faults

\* the inner loop goes on to the next size, or the outer one to the next input
Advance ==
  IF cur_size < Len(app_store_sizes)
  THEN cur_size' = cur_size + 1 /\ UNCHANGED <<pc, cur_input>>
  ELSE pc' = "loop" /\ cur_input' = cur_input + 1 /\ cur_size' = 1

\* convert_screenshots.main: `for screenshot in screenshots: if os.path.exists`
ConvertCheck ==
  /\ prog = "convert" /\ pc = "loop" /\ cur_input <= Len(screenshots)
  /\ IF fs[cur_input].kind # "missing"
     THEN pc' = "sizes" /\ cur_size' = 1 /\ UNCHANGED <<cur_input, warned>>
     ELSE warned' = [warned EXCEPT ![cur_input] = @ + 1] /\ cur_input' = cur_input + 1 /\ UNCHANGED <<pc, cur_size>>
  /\ UNCHANGED <<prog, fs, pre, calls, stage, disk, logged, manifest, exit, faults,
                 t_in, t_out>>

\* convert_screenshots.main: `create_app_store_screenshot(screenshot, output_dir,
\* size)` in the loop over sizes; an exception of the call leaves main and ends
\* the process with a traceback and status 1
ConvertPair ==
  /\ prog = "convert" /\ pc = "sizes"
  /\ \E save \in SaveChoices :
       LET r == ConvertOutcome[fs[cur_input], cur_size, save]
       IN  /\ Record(r)
           /\ IF r.raised
              THEN pc' = "done" /\ exit' = 1 /\ UNCHANGED <<cur_input, cur_size>>
              ELSE Advance /\ UNCHANGED exit
  /\ UNCHANGED <<prog, fs, pre, warned, logged, manifest, t_in, t_out>>

\* convert_screenshots.main: after the loop, the manifest, and the return
ConvertFinish ==
  /\ prog = "convert" /\ pc = "loop" /\ cur_input > Len(screenshots)
  /\ manifest' = ManifestFrom(1, 1)
  /\ pc' = "done"
  /\ exit' = 0
  /\ UNCHANGED <<prog, fs, pre, cur_input, cur_size, warned, calls, stage, disk, logged, faults,
                 t_in, t_out>>

\* resize_screenshots.main: `for image in images: if not os.path.exists`
ResizeCheck ==
  /\ prog = "resize" /\ pc = "loop" /\ cur_input <= Len(screenshots)
  /\ IF fs[cur_input].kind = "missing"
     THEN warned' = [warned EXCEPT ![cur_input] = @ + 1] /\ cur_input' = cur_input + 1 /\ UNCHANGED <<pc, cur_size>>
     ELSE pc' = "sizes" /\ cur_size' = 1 /\ UNCHANGED <<cur_input, warned>>
  /\ UNCHANGED <<prog, fs, pre, calls, stage, disk, logged, manifest, exit, faults,
                 t_in, t_out>>

\* resize_screenshots.main: `resize_for_app_store(image, output_name, (width,
\* height))` in the loop over sizes
ResizePair ==
  /\ prog = "resize" /\ pc = "sizes"
  /\ \E save \in SaveChoices :
       LET r == ResizeOutcome[fs[cur_input], cur_size, save]
       IN  /\ Record(r)
           /\ logged' = IF r.printed = "Error" THEN logged \cup {<<cur_input, cur_size>>} ELSE logged
           /\ IF r.raised
              THEN pc' = "done" /\ exit' = 1 /\ UNCHANGED <<cur_input, cur_size>>
              ELSE Advance /\ UNCHANGED exit
  /\ UNCHANGED <<prog, fs, pre, warned, manifest, t_in, t_out>>

\* resize_screenshots.main: the loop is over, main returns
ResizeFinish ==
  /\ prog = "resize" /\ pc = "loop" /\ cur_input > Len(screenshots)
  /\ pc' = "done"
  /\ exit' = 0
  /\ UNCHANGED <<prog, fs, pre, cur_input, cur_size, warned, calls, stage, disk, logged, manifest,
                 faults, t_in, t_out>>

Next ==
  \/ ConvertCheck
  \/ ConvertPair
  \/ ConvertFinish
  \/ ResizeCheck
  \/ ResizePair
  \/ ResizeFinish

Spec == Init /\ [][Next]_vars

(***************************************************************************)
(* The two transforms called directly, on sources and targets beyond those *)
(* of the drivers' tables.                                                 *)
(***************************************************************************)
\* sources of every size up to MaxDim x MaxDim
MaxDim == 16

\* further source sizes: a usual screenshot, sizes whose ratio is not a binary
\* fraction, extreme aspect ratios, and sizes that are targets too
SpecialSizes ==
  { <<1000, 600>>, <<23, 20>>, <<5000, 1>>, <<1, 5000>>, <<2000, 3>>, <<13, 23>>,
    <<1, 49>>, <<1280, 800>>, <<1440, 900>>, <<2560, 1600>>, <<2880, 1800>> }

SourceSizes == ((1..MaxDim) \X (1..MaxDim)) \cup SpecialSizes

\* the targets: the table's and some that are not in it
Targets ==
  { app_store_sizes[k] : k \in Sizes }
    \cup { <<13, 23>>, <<1, 49>>, <<100, 100>>, <<200, 300>>, <<201, 300>> }

\* what a source of mode and transparency other than plain RGB may be
AlphaFiles ==
  { Image(<<1000, 600>>, "RGBA", 0), Image(<<1000, 600>>, "RGBA", 255),
    Image(<<1000, 600>>, "LA", 0), Image(<<1000, 600>>, "LA", 255), Undecodable }

\* the arguments of a direct call, and what its write will do
TransformCalls ==
  { [file |-> Image(sz, "RGB", 255), size |-> tg, save |-> "ok"]
      : sz \in SourceSizes, tg \in Targets }
    \cup { [file |-> f, size |-> tg, save |-> sv]
             : f \in AlphaFiles, tg \in Targets, sv \in SaveOutcomes }

TInit ==
  /\ prog = "none"
  /\ fs = [n \in Inputs |-> Missing]
  /\ pre = FALSE
  /\ pc = "done"
  /\ cur_input = 1
  /\ cur_size = 1
  /\ warned = [n \in Inputs |-> 0]
  /\ calls = <<>>
  /\ stage = [p \in Pairs |-> "none"]
  /\ disk = [p \in Pairs |-> "absent"]
  /\ logged = {}
  /\ manifest = <<>>
  /\ exit = -1
  /\ faults = 0
  /\ t_in \in TransformCalls
  /\ t_out = NoCall

\* create_app_store_screenshot(original_path, output_dir, size)
CallConvert ==
  /\ t_out = NoCall
  /\ t_out' = [fn |-> "convert",
               out |-> create_app_store_screenshot(t_in.file, t_in.size, t_in.save)]
  /\ UNCHANGED <<prog, fs, pre, pc, cur_input, cur_size, warned, calls, stage, disk,
                 logged, manifest, exit, faults, t_in>>

\* resize_for_app_store(input_path, output_path, target_size)
CallResize ==
  /\ t_out = NoCall
  /\ t_out' = [fn |-> "resize",
               out |-> resize_for_app_store(t_in.file, t_in.size, t_in.save)]
  /\ UNCHANGED <<prog, fs, pre, pc, cur_input, cur_size, warned, calls, stage, disk,
                 logged, manifest, exit, faults, t_in>>

TNext ==
  \/ CallConvert
  \/ CallResize

TransformSpec == TInit /\ [][TNext]_vars

(***************************************************************************)
(* The properties.  Those of the drivers are stated of Spec, those of the  *)
(* transforms of TransformSpec.                                            *)
(***************************************************************************)

\* C1: in both drivers, a pair whose processing fails (decode, resize or
\* write) has its failure caught and logged at that pair, and every pair of
\* every existing input is still processed: when the run has ended, no pair of
\* an existing input is left unprocessed.
C1_PairIsolation ==
  /\ \A p \in Pairs : stage[p] \in {"open", "resize", "save"} => p \in logged
  /\ pc = "done" => \A p \in Pairs : fs[p[1]].kind # "missing" => stage[p] # "none"

\* C2: every run of either driver ends with exit status 0, whatever the
\* inputs hold and whichever writes fail.
C2_ExitsZero == pc = "done" => exit = 0

\* C3: an input that does not exist when the driver checks it gets exactly
\* one warning, no call of the transform and no output file, and the transform
\* is still called once for every size, in list order, for every input that
\* exists.
C3_MissingInput ==
  \A n \in Inputs : fs[n].kind = "missing" =>
    /\ warned[n] <= 1
    /\ cur_input > n => warned[n] = 1
    /\ \A k \in Sizes :
         /\ \A c \in 1..Len(calls) : calls[c] # <<n, k>>
         /\ disk[<<n, k>>] = (IF pre THEN "old" ELSE "absent")
    /\ pc = "done" =>
         LET all == [c \in 1..(Len(screenshots) * Len(app_store_sizes)) |->
                       << ((c - 1) \div Len(app_store_sizes)) + 1,
                          ((c - 1) % Len(app_store_sizes)) + 1 >>]
         IN  calls = SelectSeq(all, LAMBDA p : fs[p[1]].kind # "missing")

\* C4: for every source and target of positive width and height, the
\* transform (either policy) produces an output image whose size is the
\* target's.
C4_OutputSize ==
  (t_out # NoCall /\ t_in.file.kind = "image" /\ t_in.save = "ok") =>
    /\ t_out.out.image.kind = "image"
    /\ t_out.out.image.size = t_in.size

\* C5: under both policies, for every source and target of positive width
\* and height, the scaled size is at most the target in both dimensions and
\* the centring offset is at least 0 on both axes.
C5_ScaledFits ==
  (t_out # NoCall /\ t_in.file.kind = "image") =>
    LET new  == t_out.out.new
        size == t_in.size
    IN  /\ new[1] <= size[1]
        /\ new[2] <= size[2]
        /\ (size[1] - new[1]) \div 2 >= 0
        /\ (size[2] - new[2]) \div 2 >= 0
        /\ t_out.out.failed \in {"", "save"} =>
             /\ t_out.out.offset[1] >= 0
             /\ t_out.out.offset[2] >= 0

\* a call of resize_for_app_store whose image binds on the width and is
\* centred, with room left, on the height
C5_Witness ==
  /\ t_out # NoCall
  /\ t_out.fn = "resize"
  /\ t_out.out.failed = ""
  /\ t_out.out.new[1] = t_in.size[1]
  /\ t_out.out.new[2] < t_in.size[2]
  /\ t_out.out.offset[1] = 0
  /\ t_out.out.offset[2] > 0

\* C6: when convert_screenshots.main has ended, the manifest has been
\* printed and lists one name {basename}_{width}x{height}.png for each pair of
\* the input list and the size table, inputs first, then sizes, whatever
\* happened to the pairs' outputs.
C6_Manifest ==
  (prog = "convert" /\ pc = "done") =>
    manifest = << "mainscreen_1280x800.png", "mainscreen_1440x900.png",
                  "mainscreen_2560x1600.png", "mainscreen_2880x1800.png",
                  "settings_1280x800.png", "settings_1440x900.png",
                  "settings_2560x1600.png", "settings_2880x1800.png",
                  "compact_1280x800.png", "compact_1440x900.png",
                  "compact_2560x1600.png", "compact_2880x1800.png" >>

\* C7: in both drivers, the output file of a pair is created or changed only
\* after the decode, the resize and the composite of that pair have succeeded:
\* a pair that is not processed, or whose decode or resize failed, has its file
\* as it was before the run.
C7_WriteAfterTransform ==
  \A p \in Pairs :
    stage[p] \notin {"save", "done"} => disk[p] = (IF pre THEN "old" ELSE "absent")

\* a run over existing outputs in which one pair's resize failed and another
\* pair's transform succeeded and its write did not
C7_Witness ==
  /\ pre
  /\ \E p \in Pairs, q \in Pairs :
       /\ stage[p] = "resize"
       /\ disk[p] = "old"
       /\ stage[q] = "save"
       /\ disk[q] = "partial"

\* C8: for every source with an alpha channel, in both transforms, a fully
\* transparent source pixel gives an output pixel of the background colour,
\* and the output image is of mode RGB.
C8_AlphaShowsBackground ==
  (/\ t_out # NoCall
   /\ t_in.file.kind = "image"
   /\ HasAlpha(t_in.file.mode)
   /\ t_out.out.image.kind = "image") =>
    /\ t_out.out.image.mode = "RGB"
    /\ t_in.file.px.a = 0 =>
         t_out.out.image.px.rgb = (IF t_out.fn = "convert" THEN bg_color ELSE white)

\* C9: under Policy B, for every source (w, h) and target (tw, th), the scaled
\* size is (floor(w*s), floor(h*s)) for s = min(tw/w, th/h) in exact
\* arithmetic: width-bound when tw/w <= th/h, i.e. tw*h <= th*w.  (The source
\* 1000x600 with target 1280x800 and the source equal to the target are
\* instances.)
C9_ExactFloor ==
  (t_out # NoCall /\ t_out.fn = "resize" /\ t_in.file.kind = "image") =>
    LET w  == t_in.file.size[1]
        h  == t_in.file.size[2]
        tw == t_in.size[1]
        th == t_in.size[2]
    IN  t_out.out.new = (IF tw * h <= th * w
                         THEN << tw, (h * tw) \div w >>
                         ELSE << (w * th) \div h, th >>)

\* C10: under Policy A, for every source and every target of the size table,
\* the scaled size is at most the target less 200 in both dimensions, so the
\* offset is at least 100 on both axes, and it is at most twice the source.
C10_PaddingAndCap ==
  (/\ t_out # NoCall
   /\ t_out.fn = "convert"
   /\ t_in.file.kind = "image"
   /\ \E k \in Sizes : t_in.size = app_store_sizes[k]) =>
    LET new  == t_out.out.new
        size == t_in.size
    IN  /\ new[1] <= size[1] - 200
        /\ new[2] <= size[2] - 200
        /\ (size[1] - new[1]) \div 2 >= 100
        /\ (size[2] - new[2]) \div 2 >= 100
        /\ new[1] <= 2 * t_in.file.size[1]
        /\ new[2] <= 2 * t_in.file.size[2]

\* a call of create_app_store_screenshot on a table size whose image fills
\* the padded area in one dimension
C10_Witness ==
  /\ t_out # NoCall
  /\ t_out.fn = "convert"
  /\ \E k \in Sizes : t_in.size = app_store_sizes[k]
  /\ t_out.out.failed = ""
  /\ \/ t_out.out.new[1] = t_in.size[1] - 200
     \/ t_out.out.new[2] = t_in.size[2] - 200
  /\ t_out.out.offset[1] >= 100
  /\ t_out.out.offset[2] >= 100

====
